---- MODULE Spec2Model ----
(***************************************************************************)
(* The `theme` variant of src/index.js (pluginTheme): a walk over the      *)
(* rules of a CSS container that replaces the body of every rule with two  *)
(* `@apply` directives built from the rule's class candidate.              *)
(*                                                                         *)
(* The CSS tree is a heap: a sequence of node records, a node's identity   *)
(* is its index, `kids` is the node's `nodes` array and `parent` is its    *)
(* `parent` field (0 when undefined).  An optional JavaScript value is a   *)
(* sequence of length 0 (undefined) or 1.                                  *)
(***************************************************************************)
EXTENDS Naturals, Sequences, FiniteSets, TLC

VARIABLES
    nodes,        \* the heap of CSS nodes; nodes[Root] is `container`
    pc,           \* "idle", "walking", "returned" or "thrown"
    stack,        \* the frames of container.walkRules: [node, index]
    ret,          \* what the handler returned: <<>> or <<selector format>>
    runs,         \* number of invocations of the handler so far
    visits,       \* per rule: how often the walkRules callback rewrote it
    hostTouched,  \* rules whose directives the host expanded since their rewrite
    orig,         \* the heap the handler was first given
    firstRun      \* per rule: its body when the first invocation returned

vars == <<nodes, pc, stack, ret, runs, visits, hostTouched, orig, firstRun>>

(***************************************************************************)
(* Bounds.                                                                 *)
(***************************************************************************)
MaxDecls == 5
MaxRuns == 2

(***************************************************************************)
(* Nodes.                                                                  *)
(***************************************************************************)
Root == 1

Range(s) == {s[i] : i \in 1..Len(s)}

NoTailwind == [tailwind |-> <<>>]
TailwindNoCandidate == [tailwind |-> <<[classCandidate |-> <<>>]>>]
Tagged(c) == [tailwind |-> <<[classCandidate |-> <<c>>]>>]

RootNode ==
    [type |-> "root", selector |-> "", name |-> "", params |-> "", prop |-> "",
     important |-> FALSE, raws |-> NoTailwind, parent |-> 0, kids |-> <<>>]

RuleNode(sel, raws) ==
    [type |-> "rule", selector |-> sel, name |-> "", params |-> "", prop |-> "",
     important |-> FALSE, raws |-> raws, parent |-> 0, kids |-> <<>>]

DeclNode(prop, imp) ==
    [type |-> "decl", selector |-> "", name |-> "", params |-> "", prop |-> prop,
     important |-> imp, raws |-> NoTailwind, parent |-> 0, kids |-> <<>>]

\* postcss.atRule({ name, params }): no `important` property, no children
atRule(name, params) ==
    [type |-> "atrule", selector |-> "", name |-> name, params |-> params,
     prop |-> "", important |-> FALSE, raws |-> NoTailwind, parent |-> 0,
     kids |-> <<>>]

\* container.append(node): the node goes last and its parent is set
append(h, p, node) ==
    Append([h EXCEPT ![p].kids = Append(@, Len(h) + 1)],
           [node EXCEPT !.parent = p])

\* container.removeAll(): every child loses its parent, the array is emptied
removeAll(h, p) ==
    [i \in 1..Len(h) |->
        IF i = p THEN [h[i] EXCEPT !.kids = <<>>]
        ELSE IF i \in Range(h[p].kids) THEN [h[i] EXCEPT !.parent = 0]
        ELSE h[i]]

RECURSIVE IsUnder(_, _, _)
\* n is a proper descendant of r, following parent fields
IsUnder(h, n, r) ==
    /\ h[n].parent # 0
    /\ \/ h[n].parent = r
       \/ IsUnder(h, h[n].parent, r)

(***************************************************************************)
(* The helpers of src/index.js.                                            *)
(***************************************************************************)
\* the destructuring `{ tailwind: { classCandidate } } = rule.raws` throws a
\* TypeError when rule.raws.tailwind is undefined
extractThrows(rule) == rule.raws.tailwind = <<>>

extractClassCandidateOther(rule) == <<"bg-brand">>

extractClassCandidate(rule) == rule.raws.tailwind[1].classCandidate

\* `${v}` in a template literal
TemplateString(v) == IF v = <<>> THEN "undefined" ELSE v[1]

LightClass(classCandidate) == TemplateString(classCandidate) \o "-light"

DarkClass(classCandidate) ==
    "dark:" \o TemplateString(classCandidate) \o "-dark"

clearRuleKeepsFirst(h, r) ==
    IF h[r].kids = <<>> THEN h
    ELSE [i \in 1..Len(h) |->
            IF i = r THEN [h[i] EXCEPT !.kids = <<Head(@)>>]
            ELSE IF i \in Range(Tail(h[r].kids)) THEN [h[i] EXCEPT !.parent = 0]
            ELSE h[i]]

clearRuleDropsFirst(h, r) ==
    IF h[r].kids = <<>> THEN h
    ELSE [i \in 1..Len(h) |->
            IF i = r THEN [h[i] EXCEPT !.kids = Tail(@)]
            ELSE IF i = Head(h[r].kids) THEN [h[i] EXCEPT !.parent = 0]
            ELSE h[i]]

clearRuleNoop(h, r) == h

clearRule(h, r) == removeAll(h, r)

applyNewClassCandidatePrepends(h, r, newClassCandidate) ==
    Append([h EXCEPT ![r].kids = <<Len(h) + 1>> \o @],
           [atRule("apply", newClassCandidate) EXCEPT !.parent = r])

applyNewClassCandidate(h, r, newClassCandidate) ==
    append(h, r, atRule("apply", newClassCandidate))

walkDeclsOfContainer(h, r) ==
    [i \in 1..Len(h) |->
        IF h[i].type = "decl" /\ IsUnder(h, i, Root)
        THEN [h[i] EXCEPT !.important = TRUE]
        ELSE h[i]]

\* rule.walkDecls((decl) => { decl.important = true })
walkDecls(h, r) ==
    [i \in 1..Len(h) |->
        IF h[i].type = "decl" /\ IsUnder(h, i, r)
        THEN [h[i] EXCEPT !.important = TRUE]
        ELSE h[i]]

themeCallbackClearsFirst(h, r) ==
    IF extractThrows(h[r])
    THEN [threw |-> TRUE, heap |-> clearRule(h, r)]
    ELSE LET classCandidate == extractClassCandidate(h[r])
             h1 == clearRule(h, r)
             h2 == applyNewClassCandidate(h1, r, LightClass(classCandidate))
             h3 == applyNewClassCandidate(h2, r, DarkClass(classCandidate))
         IN  [threw |-> FALSE, heap |-> walkDecls(h3, r)]

\* the callback given to container.walkRules, run on rule r of heap h
themeCallback(h, r) ==
    IF extractThrows(h[r])
    THEN [threw |-> TRUE, heap |-> h]
    ELSE LET classCandidate == extractClassCandidate(h[r])
             h1 == clearRule(h, r)
             h2 == applyNewClassCandidate(h1, r, LightClass(classCandidate))
             h3 == applyNewClassCandidate(h2, r, DarkClass(classCandidate))
         IN  [threw |-> FALSE, heap |-> walkDecls(h3, r)]

HandlerReturnDark == ".dark &"

\* return '&'
HandlerReturn == "&"

(***************************************************************************)
(* The host's later pass over the `@apply` directives.                     *)
(***************************************************************************)
\* attached `@apply` directives
Directives(h) ==
    {d \in 1..Len(h) : /\ h[d].type = "atrule"
                       /\ h[d].name = "apply"
                       /\ IsUnder(h, d, Root)}

\* directive d is replaced, in place, by the declaration of the utility it
\* names; the host decides the declaration's important flag
ExpandOne(h, d, imp) ==
    LET p == h[d].parent
        new == Len(h) + 1
        h1 == [h EXCEPT ![p].kids = [i \in 1..Len(@) |->
                                        IF @[i] = d THEN new ELSE @[i]],
                        ![d].parent = 0]
    IN  Append(h1, [DeclNode(h[d].params, imp) EXCEPT !.parent = p])

RECURSIVE ExpandSet(_, _, _)
ExpandSet(h, S, imp) ==
    IF S = {} THEN h
    ELSE LET d == CHOOSE x \in S : \A y \in S : x <= y
         IN  ExpandSet(ExpandOne(h, d, imp), S \ {d}, imp)

(***************************************************************************)
(* The containers the handler is given.                                    *)
(***************************************************************************)
RECURSIVE AddDecls(_, _, _)
AddDecls(h, p, n) ==
    IF n = 0 THEN h
    ELSE AddDecls(append(h, p, DeclNode("color", FALSE)), p, n - 1)

ClassNames == {"bg-brand", "text-accent"}

TagChoices == {Tagged(c) : c \in ClassNames} \cup {NoTailwind, TailwindNoCandidate}

DeclCounts == {0, MaxDecls}

\* .a { nA decls }  @media { .b { decl; [.n { decl }] } }  .c { MaxDecls decls }
Container(tA, nA, tB, nested, tC) ==
    LET h1 == append(<<RootNode>>, Root, RuleNode(".a", tA))
        h2 == AddDecls(h1, Len(h1), nA)
        h3 == append(h2, Root, atRule("media", "(min-width: 640px)"))
        m == Len(h3)
        h4 == append(h3, m, RuleNode(".b", tB))
        b == Len(h4)
        h5 == append(h4, b, DeclNode("color", FALSE))
        h6 == IF nested
              THEN LET g == append(h5, b, RuleNode(".n", Tagged("bg-brand")))
                   IN  append(g, Len(g), DeclNode("color", FALSE))
              ELSE h5
        h7 == append(h6, Root, RuleNode(".c", tC))
    IN  AddDecls(h7, Len(h7), MaxDecls)

Containers ==
    {Container(tA, nA, tB, nested, tC) :
        tA \in TagChoices, nA \in DeclCounts, tB \in TagChoices,
        nested \in BOOLEAN, tC \in TagChoices}

RuleIds(h) == {r \in 1..Len(h) : h[r].type = "rule"}

\* what a node is, apart from its identity and its place in the tree
NodeView(h, n) ==
    [type |-> h[n].type, selector |-> h[n].selector, name |-> h[n].name,
     params |-> h[n].params, prop |-> h[n].prop, important |-> h[n].important,
     nkids |-> Len(h[n].kids)]

Body(h, r) == [i \in 1..Len(h[r].kids) |-> NodeView(h, h[r].kids[i])]

(***************************************************************************)
(* The state machine.                                                      *)
(***************************************************************************)
Init ==
    /\ nodes \in Containers
    /\ orig = nodes
    /\ pc = "idle"
    /\ stack = <<>>
    /\ ret = <<>>
    /\ runs = 0
    /\ visits = [r \in RuleIds(nodes) |-> 0]
    /\ hostTouched = {}
    /\ firstRun = [r \in RuleIds(nodes) |-> <<>>]

\* the host calls the variant function with api.container
Invoke ==
    /\ pc \in {"idle", "returned"}
    /\ runs < MaxRuns
    /\ pc' = "walking"
    /\ runs' = runs + 1
    /\ stack' = <<[node |-> Root, index |-> 1]>>
    /\ ret' = <<>>
    /\ UNCHANGED <<nodes, visits, hostTouched, orig, firstRun>>

Top == stack[Len(stack)]
HasChild == Top.index <= Len(nodes[Top.node].kids)
Child == nodes[Top.node].kids[Top.index]

\* index += 1 in the frame on top of the stack
Advance(s) == [s EXCEPT ![Len(s)].index = @ + 1]

\* the walk meets a rule: the callback runs to its end and the walk descends
\* into the rule's new children
VisitRule ==
    /\ pc = "walking"
    /\ HasChild
    /\ nodes[Child].type = "rule"
    /\ LET res == themeCallback(nodes, Child)
       IN  /\ ~res.threw
           /\ nodes' = res.heap
    /\ visits' = [visits EXCEPT ![Child] = @ + 1]
    /\ hostTouched' = hostTouched \ {Child}
    /\ stack' = Append(stack, [node |-> Child, index |-> 1])
    /\ UNCHANGED <<pc, ret, runs, orig, firstRun>>

\* the walk meets a rule and the callback throws: the exception leaves
\* walkRules and the handler
VisitRuleThrows ==
    /\ pc = "walking"
    /\ HasChild
    /\ nodes[Child].type = "rule"
    /\ LET res == themeCallback(nodes, Child)
       IN  /\ res.threw
           /\ nodes' = res.heap
    /\ pc' = "thrown"
    /\ UNCHANGED <<stack, ret, runs, visits, hostTouched, orig, firstRun>>

\* the walk meets a node that is not a rule: walkRules does not call back;
\* a container is descended into, a declaration is stepped over
VisitOther ==
    /\ pc = "walking"
    /\ HasChild
    /\ nodes[Child].type # "rule"
    /\ stack' = IF nodes[Child].type = "atrule"
                THEN Append(stack, [node |-> Child, index |-> 1])
                ELSE Advance(stack)
    /\ UNCHANGED <<nodes, pc, ret, runs, visits, hostTouched, orig, firstRun>>

\* the children of a nested container are exhausted
Ascend ==
    /\ pc = "walking"
    /\ ~HasChild
    /\ Len(stack) > 1
    /\ stack' = Advance(SubSeq(stack, 1, Len(stack) - 1))
    /\ UNCHANGED <<nodes, pc, ret, runs, visits, hostTouched, orig, firstRun>>

\* walkRules is over: return '&'
Return ==
    /\ pc = "walking"
    /\ ~HasChild
    /\ Len(stack) = 1
    /\ pc' = "returned"
    /\ ret' = <<HandlerReturn>>
    /\ stack' = <<>>
    /\ firstRun' = IF runs = 1
                   THEN [r \in RuleIds(nodes) |-> Body(nodes, r)]
                   ELSE firstRun
    /\ UNCHANGED <<nodes, runs, visits, hostTouched, orig>>

\* the host expands every `@apply` directive of the container
HostExpand ==
    /\ pc = "returned"
    /\ Directives(nodes) # {}
    /\ \E imp \in BOOLEAN : nodes' = ExpandSet(nodes, Directives(nodes), imp)
    /\ hostTouched' = hostTouched \cup {nodes[d].parent : d \in Directives(nodes)}
    /\ UNCHANGED <<pc, stack, ret, runs, visits, orig, firstRun>>

Next ==
    \/ Invoke
    \/ VisitRule
    \/ VisitRuleThrows
    \/ VisitOther
    \/ Ascend
    \/ Return
    \/ HostExpand

Spec == Init /\ [][Next]_vars

(***************************************************************************)
(* Vocabulary of the properties.                                           *)
(***************************************************************************)
\* the rule carries a class candidate
HasCandidate(r) ==
    /\ orig[r].raws.tailwind # <<>>
    /\ orig[r].raws.tailwind[1].classCandidate # <<>>

CandidateOf(r) == orig[r].raws.tailwind[1].classCandidate[1]

\* the rule's body is as the callback left it
AsRewritten(r) == visits[r] > 0 /\ r \notin hostTouched

RECURSIVE ViaAtRules(_, _)
\* n sits at the top level of the container or inside at-rules only
ViaAtRules(h, n) ==
    /\ h[n].parent # 0
    /\ \/ h[n].parent = Root
       \/ /\ h[h[n].parent].type = "atrule"
          /\ ViaAtRules(h, h[n].parent)

InScopeRules == {r \in RuleIds(orig) : ViaAtRules(orig, r)}

\* the children of r are the two directives of class name c, and nothing else
TwoDirectives(r, c) ==
    /\ Len(nodes[r].kids) = 2
    /\ \A i \in 1..2 :
          /\ nodes[nodes[r].kids[i]].type = "atrule"
          /\ nodes[nodes[r].kids[i]].name = "apply"
          /\ nodes[nodes[r].kids[i]].kids = <<>>
          /\ nodes[nodes[r].kids[i]].parent = r
    /\ nodes[nodes[r].kids[1]].params = c \o "-light"
    /\ nodes[nodes[r].kids[2]].params = "dark:" \o c \o "-dark"

\* the rule rewritten by this step, if the step is a rewrite
Rewrites(r) == visits'[r] > visits[r]

(***************************************************************************)
(* C1: once the callback has rewritten a rule tagged with class name C,    *)
(* the rule's children are exactly two `apply` directives, the first with  *)
(* params C-light and the second with params dark:C-dark.                  *)
(***************************************************************************)
C1_TwoDirectives ==
    \A r \in RuleIds(orig) :
        (AsRewritten(r) /\ HasCandidate(r)) => TwoDirectives(r, CandidateOf(r))

C1_Witness ==
    /\ pc = "returned"
    /\ \E r \in RuleIds(orig) :
          /\ AsRewritten(r)
          /\ HasCandidate(r)
          /\ CandidateOf(r) = "bg-brand"
          /\ Len(orig[r].kids) > 0

(***************************************************************************)
(* C2: every declaration present on a rewritten rule, also one that the    *)
(* expansion of the directives put there after the handler returned, has   *)
(* its important flag set.                                                 *)
(***************************************************************************)
C2_DeclsImportant ==
    \A r \in RuleIds(orig) :
        visits[r] > 0 =>
            \A k \in Range(nodes[r].kids) :
                nodes[k].type = "decl" => nodes[k].important = TRUE

(***************************************************************************)
(* C3: when the handler returns, both directives of every rewritten rule   *)
(* are marked priority.                                                    *)
(***************************************************************************)
C3_DirectivesImportant ==
    pc = "returned" =>
        \A r \in RuleIds(orig) :
            AsRewritten(r) =>
                \A k \in Range(nodes[r].kids) :
                    nodes[k].type = "atrule" => nodes[k].important = TRUE

(***************************************************************************)
(* C4: whenever the handler returns, it returns the selector format "&",   *)
(* whatever the class names and the number of the rules in the container.  *)
(***************************************************************************)
C4_ReturnsIdentity ==
    /\ pc = "returned" => ret = <<"&">>
    /\ ret # <<>> => ret = <<"&">>

C4_Witness ==
    /\ pc = "returned"
    /\ ret # <<>>
    /\ \E r1, r2 \in RuleIds(orig) :
          /\ visits[r1] > 0 /\ visits[r2] > 0
          /\ HasCandidate(r1) /\ HasCandidate(r2)
          /\ CandidateOf(r1) # CandidateOf(r2)

(***************************************************************************)
(* C5: a rewrite detaches every child the rule had, declarations and       *)
(* nested rules alike, so none of them is among the rule's children        *)
(* afterwards; and clearRule is idempotent: applied twice it leaves the    *)
(* same empty rule as applied once.                                        *)
(***************************************************************************)
C5_Emptied ==
    /\ [][\A r \in RuleIds(orig) :
            Rewrites(r) =>
                \A k \in Range(nodes[r].kids) :
                    /\ k \notin Range(nodes'[r].kids)
                    /\ nodes'[k].parent = 0]_vars
    /\ [](\A r \in RuleIds(orig) :
            /\ clearRule(nodes, r)[r].kids = <<>>
            /\ clearRule(clearRule(nodes, r), r) = clearRule(nodes, r))

C5_Witness ==
    \E r \in RuleIds(orig) :
        /\ visits[r] > 0
        /\ Len(orig[r].kids) >= 2
        /\ \E k \in Range(orig[r].kids) : orig[k].type = "rule"
        /\ \E k \in Range(orig[r].kids) : orig[k].type = "decl"

(***************************************************************************)
(* C6: the body of a rewritten rule depends on its tag only: two rewritten *)
(* rules with the same tag have the same children, whatever each of them   *)
(* held before.                                                            *)
(***************************************************************************)
C6_SameTagSameBody ==
    \A r1, r2 \in RuleIds(orig) :
        (/\ AsRewritten(r1)
         /\ AsRewritten(r2)
         /\ orig[r1].raws = orig[r2].raws)
        => Body(nodes, r1) = Body(nodes, r2)

C6_Witness ==
    \E r1, r2 \in RuleIds(orig) :
        /\ AsRewritten(r1)
        /\ AsRewritten(r2)
        /\ HasCandidate(r1)
        /\ orig[r1].raws = orig[r2].raws
        /\ CandidateOf(r1) = "text-accent"
        /\ Len(orig[r1].kids) = 0
        /\ Len(orig[r2].kids) >= 5

(***************************************************************************)
(* C7: a rewrite of rule r changes the child list of r only: r keeps its   *)
(* selector, its tag, its type and its parent, and every node that is      *)
(* neither r nor below r is left as it was.                                *)
(***************************************************************************)
C7_Frame ==
    [][\A r \in RuleIds(orig) :
          Rewrites(r) =>
              /\ nodes'[r].selector = nodes[r].selector
              /\ nodes'[r].raws = nodes[r].raws
              /\ nodes'[r].type = nodes[r].type
              /\ nodes'[r].parent = nodes[r].parent
              /\ \A n \in 1..Len(nodes) :
                    (n # r /\ ~IsUnder(nodes, n, r)) => nodes'[n] = nodes[n]]_vars

C7_Witness ==
    \E r \in RuleIds(orig) :
        /\ visits[r] > 0
        /\ orig[r].selector = ".a"
        /\ \E n \in 1..Len(nodes) :
              /\ nodes[n].type = "decl"
              /\ ~nodes[n].important
              /\ IsUnder(nodes, n, Root)
              /\ ~IsUnder(nodes, n, r)

(***************************************************************************)
(* The work left to an invocation: a declaration costs one step, an        *)
(* at-rule its own visit, its children and the ascent, and a rule the      *)
(* visit, the two directives it will hold and the ascent.                  *)
(***************************************************************************)
RECURSIVE Weight(_, _), SumWeight(_, _, _)
Weight(h, n) ==
    IF h[n].type = "decl" THEN 1
    ELSE IF h[n].type = "rule" THEN 6
    ELSE 2 + SumWeight(h, h[n].kids, 1)

SumWeight(h, ks, from) ==
    IF from > Len(ks) THEN 0
    ELSE Weight(h, ks[from]) + SumWeight(h, ks, from + 1)

FrameWork(j) ==
    IF j = Len(stack)
    THEN SumWeight(nodes, nodes[stack[j].node].kids, stack[j].index)
    ELSE 1 + SumWeight(nodes, nodes[stack[j].node].kids, stack[j].index + 1)

RECURSIVE WorkFrom(_)
WorkFrom(j) == IF j > Len(stack) THEN 0 ELSE FrameWork(j) + WorkFrom(j + 1)

WorkLeft == WorkFrom(1)

\* the walk has a frame to work on and its position is a node of the tree;
\* the guards of VisitRule, VisitRuleThrows, VisitOther, Ascend and Return
\* then cover every case (a child or none, a rule or not, thrown or not,
\* the outermost frame or an inner one)
WalkCanStep ==
    /\ Len(stack) >= 1
    /\ \A j \in 1..Len(stack) :
          /\ stack[j].node \in 1..Len(nodes)
          /\ stack[j].index >= 1
          /\ nodes[stack[j].node].type \in {"root", "rule", "atrule"}
    /\ HasChild => Child \in 1..Len(nodes)

(***************************************************************************)
(* C8: an invocation of the handler ends: while the walk is in progress it *)
(* is never stuck and every step that does not end it lessens the work     *)
(* left, although the callback replaces the children of the rule being     *)
(* visited.  When the handler returns, every rule at the top level or      *)
(* inside at-rules has been rewritten exactly once per invocation and      *)
(* holds the directives of its own class candidate.                        *)
(***************************************************************************)
C8_EveryRuleOnce ==
    /\ [](pc = "returned" =>
            \A r \in InScopeRules :
                /\ visits[r] = runs
                /\ (HasCandidate(r) /\ r \notin hostTouched)
                      => TwoDirectives(r, CandidateOf(r)))
    /\ [](pc = "walking" => WalkCanStep)
    /\ [][(pc = "walking" /\ pc' = "walking") => WorkLeft' < WorkLeft]_vars
    /\ [][\A r \in RuleIds(orig) : visits'[r] <= visits[r] + 1]_vars

C8_Witness ==
    /\ pc = "returned"
    /\ runs = 1
    /\ hostTouched = {}
    /\ Cardinality(InScopeRules) >= 3
    /\ \E r \in InScopeRules : orig[orig[r].parent].type = "atrule"
    /\ \E r1, r2 \in InScopeRules :
          /\ HasCandidate(r1) /\ HasCandidate(r2)
          /\ CandidateOf(r1) # CandidateOf(r2)
    /\ \A r \in InScopeRules : visits[r] = 1

(***************************************************************************)
(* C9: when the walk meets a rule without a tailwind tag object, the       *)
(* handler throws before anything is cleared: the step changes no node,    *)
(* nothing is returned, the failing rule and the rules not yet visited are *)
(* as they were given, and the rules rewritten before keep their           *)
(* directives.                                                             *)
(***************************************************************************)
C9_ThrowLeavesRule ==
    /\ [][(pc = "walking" /\ pc' = "thrown") => (nodes' = nodes /\ ret' = ret)]_vars
    /\ [](pc = "thrown" =>
            /\ ret = <<>>
            /\ orig[Child].raws.tailwind = <<>>
            /\ nodes[Child] = orig[Child]
            /\ \A r \in InScopeRules :
                  visits[r] = 0 =>
                      /\ nodes[r] = orig[r]
                      /\ \A k \in Range(nodes[r].kids) : nodes[k] = orig[k]
            /\ \A r \in InScopeRules :
                  (visits[r] > 0 /\ HasCandidate(r))
                      => TwoDirectives(r, CandidateOf(r)))

C9_Witness ==
    /\ pc = "thrown"
    /\ Len(nodes[Child].kids) > 0
    /\ \E r \in InScopeRules : visits[r] > 0 /\ HasCandidate(r)
    /\ \E r \in InScopeRules :
          /\ r > Child
          /\ visits[r] = 0
          /\ HasCandidate(r)
          /\ Len(nodes[r].kids) > 0

(***************************************************************************)
(* C10: a later invocation of the handler on the container it has already  *)
(* rewritten leaves every rule with the body it had when the first         *)
(* invocation returned: the same two directives, not four.                 *)
(***************************************************************************)
C10_SecondRunSame ==
    (pc = "returned" /\ runs >= 2) =>
        \A r \in RuleIds(orig) :
            (visits[r] = runs /\ r \notin hostTouched) =>
                /\ Body(nodes, r) = firstRun[r]
                /\ Len(nodes[r].kids) = 2

C10_Witness ==
    /\ pc = "returned"
    /\ runs = 2
    /\ hostTouched = {}
    /\ \E r \in RuleIds(orig) :
          /\ visits[r] = 2
          /\ HasCandidate(r)
          /\ Len(orig[r].kids) > 0

====
